---- MODULE Spec2Model ----
(***************************************************************************)
(* TermiBase: the query analyzer (termibase/parser/analyzer.py), the       *)
(* execution simulator (termibase/engine/simulator.py) and the part of the *)
(* storage engine the simulator talks to (termibase/storage/engine.py).    *)
(*                                                                         *)
(* A query text is modelled as the sequence of its lexemes; the text is    *)
(* the lexemes joined by single blanks.  Every regular expression and      *)
(* every token walk of the analyzer is translated to the lexeme level.     *)
(* The vocabulary holds no lexeme that contains a clause keyword as a      *)
(* proper substring, so a keyword found by a regular expression is always  *)
(* a whole lexeme.                                                         *)
(***************************************************************************)
EXTENDS Integers, Sequences, FiniteSets, TLC

(***************************************************************************)
(* Letter case.  str.upper() / str.lower() over the vocabulary.            *)
(***************************************************************************)
Upper(w) ==
  CASE w = "select" -> "SELECT"
    [] w = "insert" -> "INSERT"
    [] w = "update" -> "UPDATE"
    [] w = "delete" -> "DELETE"
    [] w = "replace" -> "REPLACE"
    [] w = "into" -> "INTO"
    [] w = "values" -> "VALUES"
    [] w = "set" -> "SET"
    [] w = "from" -> "FROM"
    [] w = "join" -> "JOIN"
    [] w = "left" -> "LEFT"
    [] w = "on" -> "ON"
    [] w = "where" -> "WHERE"
    [] w = "group" -> "GROUP"
    [] w = "order" -> "ORDER"
    [] w = "by" -> "BY"
    [] w = "having" -> "HAVING"
    [] w = "limit" -> "LIMIT"
    [] w = "and" -> "AND"
    [] w = "or" -> "OR"
    [] w = "as" -> "AS"
    [] w = "desc" -> "DESC"
    [] w = "explain" -> "EXPLAIN"
    [] w = "create" -> "CREATE"
    [] w = "table" -> "TABLE"
    [] w = "drop" -> "DROP"
    [] w = "alter" -> "ALTER"
    [] w = "using" -> "USING"
    [] w = "distinct" -> "DISTINCT"
    [] w = "_users" -> "_USERS"
    [] w = "u" -> "U"
    [] w = "o" -> "O"
    [] w = "name" -> "NAME"
    [] w = "age" -> "AGE"
    [] w = "city" -> "CITY"
    [] w = "id" -> "ID"
    [] w = "n" -> "N"
    [] OTHER -> w

Lower(w) ==
  CASE w = "SELECT" -> "select"
    [] w = "INSERT" -> "insert"
    [] w = "UPDATE" -> "update"
    [] w = "DELETE" -> "delete"
    [] w = "REPLACE" -> "replace"
    [] w = "INTO" -> "into"
    [] w = "VALUES" -> "values"
    [] w = "SET" -> "set"
    [] w = "FROM" -> "from"
    [] w = "JOIN" -> "join"
    [] w = "LEFT" -> "left"
    [] w = "ON" -> "on"
    [] w = "WHERE" -> "where"
    [] w = "GROUP" -> "group"
    [] w = "ORDER" -> "order"
    [] w = "BY" -> "by"
    [] w = "HAVING" -> "having"
    [] w = "LIMIT" -> "limit"
    [] w = "AND" -> "and"
    [] w = "OR" -> "or"
    [] w = "AS" -> "as"
    [] w = "DESC" -> "desc"
    [] w = "EXPLAIN" -> "explain"
    [] w = "CREATE" -> "create"
    [] w = "TABLE" -> "table"
    [] w = "DROP" -> "drop"
    [] w = "ALTER" -> "alter"
    [] w = "USING" -> "using"
    [] w = "DISTINCT" -> "distinct"
    [] w = "_USERS" -> "_users"
    [] w = "U" -> "u"
    [] w = "O" -> "o"
    [] w = "NAME" -> "name"
    [] w = "AGE" -> "age"
    [] w = "CITY" -> "city"
    [] w = "ID" -> "id"
    [] w = "N" -> "n"
    [] OTHER -> w

UpperSeq(q) == [i \in 1..Len(q) |-> Upper(q[i])]

(***************************************************************************)
(* Python compares strings by code point: digits < upper case < underscore < lower case.*)
(* sorted() over a set of names is the sub-sequence of this list.          *)
(***************************************************************************)
CodePointOrder ==
  <<
    "0", "1", "25", "5", "AGE", "ALTER", "AND", "AS",
    "BY", "CITY", "CREATE", "DELETE", "DESC", "DISTINCT", "DROP", "EXPLAIN",
    "FROM", "GROUP", "HAVING", "ID", "INSERT", "INTO", "JOIN", "LEFT",
    "LIMIT", "N", "NAME", "O", "ON", "OR", "ORDER", "REPLACE",
    "SELECT", "SET", "TABLE", "U", "UPDATE", "USING", "VALUES", "WHERE",
    "_1", "_USERS", "_users", "age", "alter", "and", "as", "by",
    "city", "create", "delete", "desc", "distinct", "drop", "explain", "from",
    "group", "having", "id", "insert", "into", "join", "left", "limit",
    "n", "name", "o", "on", "or", "order", "replace", "select",
    "set", "table", "u", "update", "using", "values", "where"
  >>

Sorted(S) == SelectSeq(CodePointOrder, LAMBDA w : w \in S)

(***************************************************************************)
(* Lexeme classes.                                                         *)
(***************************************************************************)
PunctLexemes == {"*", ",", "=", ">", "(", ")"}

\* a lexeme that the pattern \w+ matches as a whole
IsWord(w) == w \notin PunctLexemes

NumberLexemes == {"0", "1", "5", "25"}

\* int() of a \d+ lexeme
IntOf(w) ==
  CASE w = "0" -> 0
    [] w = "1" -> 1
    [] w = "5" -> 5
    [] w = "25" -> 25

MinOf(S) == CHOOSE i \in S : \A j \in S : i <= j

\* `a b' occurs in the text
Adjacent(U, a, b) == \E i \in 1..(Len(U) - 1) : U[i] = a /\ U[i + 1] = b

(***************************************************************************)
(* sqlparse's lexer, as far as the analyzer looks at it: the token type of *)
(* the token that starts at lexeme i.  GROUP BY, ORDER BY and LEFT JOIN    *)
(* are lexed as one Keyword token each (sqlparse >= 0.4.4, setup.py).      *)
(***************************************************************************)
DMLWords == {"SELECT", "INSERT", "UPDATE", "DELETE", "REPLACE"}

DDLWords == {"CREATE", "DROP", "ALTER"}

PlainKeywords ==
  {"INTO", "VALUES", "SET", "FROM", "JOIN", "LEFT", "ON", "WHERE", "GROUP",
   "ORDER", "BY", "HAVING", "LIMIT", "AND", "OR", "AS", "EXPLAIN", "TABLE",
   "USING", "DISTINCT"}

MergeHead(q, i) ==
  /\ i < Len(q)
  /\ \/ Upper(q[i]) \in {"GROUP", "ORDER"} /\ Upper(q[i + 1]) = "BY"
     \/ Upper(q[i]) = "LEFT" /\ Upper(q[i + 1]) = "JOIN"

MergeTail(q, i) == i > 1 /\ MergeHead(q, i - 1)

TType(q, i) ==
  IF MergeHead(q, i) \/ MergeTail(q, i) THEN "Keyword"
  ELSE IF Upper(q[i]) \in DMLWords THEN "DML"
  ELSE IF Upper(q[i]) \in DDLWords THEN "DDL"
  ELSE IF Upper(q[i]) \in PlainKeywords THEN "Keyword"
  ELSE "Other"

\* token.value.upper() of the token that starts at lexeme i
TokenUpper(q, i) ==
  IF MergeHead(q, i)
  THEN CASE Upper(q[i]) = "GROUP" -> "GROUP BY"
         [] Upper(q[i]) = "ORDER" -> "ORDER BY"
         [] Upper(q[i]) = "LEFT" -> "LEFT JOIN"
  ELSE Upper(q[i])

(***************************************************************************)
(* QueryAnalyzer.  q is self.query (already stripped); self.parsed is None *)
(* exactly when q is empty.                                                *)
(***************************************************************************)
get_query_type(q) ==
  IF q = <<>> THEN "UNKNOWN"
  ELSE IF TType(q, 1) = "DML" THEN TokenUpper(q, 1)
  ELSE IF TType(q, 1) = "Keyword" THEN TokenUpper(q, 1)
  ELSE "UNKNOWN"

\* what may follow the table lexeme U[j]: end of text, a terminator, or an
\* alias word followed by end of text or a terminator
TargetFollowOK(U, j, terms) ==
  \/ j = Len(U)
  \/ U[j + 1] \in terms
  \/ /\ IsWord(U[j + 1])
     /\ (j + 1 = Len(U) \/ U[j + 2] \in terms)

FromTerminators ==
  {",", "WHERE", "GROUP", "ORDER", "HAVING", "JOIN", "INNER", "LEFT", "RIGHT",
   "FULL", "OUTER", "LIMIT"}

JoinTerminators == {"ON", "WHERE", "GROUP", "ORDER", "HAVING", "LIMIT"}

FromMatchAt(U, i) ==
  /\ U[i] = "FROM"
  /\ i < Len(U)
  /\ IsWord(U[i + 1])
  /\ TargetFollowOK(U, i + 1, FromTerminators)

JoinMatchAt(U, i) ==
  /\ i > 1
  /\ U[i] = "JOIN"
  /\ i < Len(U)
  /\ IsWord(U[i + 1])
  /\ TargetFollowOK(U, i + 1, JoinTerminators)

\* index of the last lexeme the match at i consumes (the alias is tried first)
JoinMatchEnd(U, i) ==
  IF i + 1 = Len(U) THEN i + 1
  ELSE IF IsWord(U[i + 2]) /\ (i + 2 = Len(U) \/ U[i + 3] \in JoinTerminators)
       THEN (IF i + 2 = Len(U) THEN i + 2 ELSE i + 3)
       ELSE i + 2

RECURSIVE JoinTables(_, _)
JoinTables(U, i) ==
  IF i > Len(U) THEN {}
  ELSE IF JoinMatchAt(U, i)
       THEN {Lower(U[i + 1])} \cup JoinTables(U, JoinMatchEnd(U, i) + 1)
       ELSE JoinTables(U, i + 1)

FromTables(U) ==
  LET hits == {i \in 1..Len(U) : FromMatchAt(U, i)}
  IN  IF hits = {} THEN {} ELSE {Lower(U[MinOf(hits) + 1])}

\* the INSERT INTO / UPDATE / DELETE FROM target, added as matched in
\* query_upper (not lower-cased)
DmlTables(U) ==
  LET ins == {i \in 1..(Len(U) - 2) :
                U[i] = "INSERT" /\ U[i + 1] = "INTO" /\ IsWord(U[i + 2])}
      upd == {i \in 1..(Len(U) - 1) : U[i] = "UPDATE" /\ IsWord(U[i + 1])}
      del == {i \in 1..(Len(U) - 2) :
                U[i] = "DELETE" /\ U[i + 1] = "FROM" /\ IsWord(U[i + 2])}
  IN  IF Adjacent(U, "INSERT", "INTO")
      THEN (IF ins = {} THEN {} ELSE {U[MinOf(ins) + 2]})
      ELSE IF \E i \in 1..Len(U) : U[i] = "UPDATE"
      THEN (IF upd = {} THEN {} ELSE {U[MinOf(upd) + 1]})
      ELSE IF Adjacent(U, "DELETE", "FROM")
      THEN (IF del = {} THEN {} ELSE {U[MinOf(del) + 2]})
      ELSE {}

get_tables(q) ==
  IF q = <<>> THEN <<>>
  ELSE LET U == UpperSeq(q)
       IN  Sorted(FromTables(U) \cup JoinTables(U, 1) \cup DmlTables(U))

\* str.split(sep) over lexemes: the pieces between the separator lexemes
RECURSIVE SplitOn(_, _, _)
SplitOn(s, sep, cur) ==
  IF s = <<>> THEN <<cur>>
  ELSE IF Head(s) = sep THEN <<cur>> \o SplitOn(Tail(s), sep, <<>>)
  ELSE SplitOn(Tail(s), sep, Append(cur, Head(s)))

\* one item of the projection list; a column is kept as its lexemes.  No
\* lexeme of the vocabulary carries a quoting character, so strip('`"[]')
\* removes nothing.
ColumnOf(p) ==
  LET asUpper == {k \in 2..(Len(p) - 1) : Upper(p[k]) = "AS"}
      asExact == {k \in 2..(Len(p) - 1) : p[k] = "AS"}
  IN  IF asUpper # {}
      THEN (IF asExact # {} THEN SubSeq(p, 1, MinOf(asExact) - 1) ELSE p)
      ELSE IF Len(p) >= 2 /\ p[1] # "("
      THEN (IF p[Len(p)] \notin {"DISTINCT", "ALL"} THEN <<p[1]>> ELSE p)
      ELSE p

KeepColumn(c) ==
  /\ c # <<>>
  /\ ~(Len(c) = 1 /\ Upper(c[1]) \in {"DISTINCT", "ALL"})

get_columns(q) ==
  IF q = <<>> \/ get_query_type(q) # "SELECT" THEN <<>>
  ELSE
    LET sel == MinOf({i \in 1..Len(q) :
                        TType(q, i) = "DML" /\ Upper(q[i]) = "SELECT"})
        froms == {i \in (sel + 1)..Len(q) :
                    TType(q, i) = "Keyword" /\ TokenUpper(q, i) = "FROM"}
        stop == IF froms = {} THEN Len(q) + 1 ELSE MinOf(froms)
        select_tokens ==
          SelectSeq(SubSeq(q, sel + 1, stop - 1),
                    LAMBDA w : Upper(w) # "SELECT")
        pieces == SplitOn(select_tokens, ",", <<>>)
        cols == [k \in 1..Len(pieces) |-> ColumnOf(pieces[k])]
    IN  IF select_tokens = <<"*">> THEN << <<"*">> >>
        ELSE SelectSeq(cols, KeepColumn)

\* re.split(r'\s+(?:AND|OR)\s+'): an AND/OR lexeme separates when blanks
\* are left on both sides of it, i.e. it is not the last lexeme of the text
\* and the separator before it has not eaten the blanks in front of it.
\* A fragment is kept as its lexemes.
RECURSIVE SplitWhere(_, _, _, _, _)
SplitWhere(q, i, stop, cur, eaten) ==
  IF i >= stop THEN <<cur>>
  ELSE IF Upper(q[i]) = "WHERE" THEN SplitWhere(q, i + 1, stop, cur, eaten)
  ELSE IF Upper(q[i]) \in {"AND", "OR"} /\ ~eaten /\ i < Len(q)
       THEN <<cur>> \o SplitWhere(q, i + 1, stop, <<>>, TRUE)
       ELSE SplitWhere(q, i + 1, stop, Append(cur, q[i]), FALSE)

get_where_conditions(q) ==
  LET wheres == {i \in 1..Len(q) :
                   TType(q, i) = "Keyword" /\ TokenUpper(q, i) = "WHERE"}
  IN  IF wheres = {} THEN <<>>
      ELSE
        LET w == MinOf(wheres)
            breaks == {i \in (w + 1)..Len(q) :
                         /\ TType(q, i) = "Keyword"
                         /\ ~MergeTail(q, i)
                         /\ TokenUpper(q, i)
                              \in {"GROUP", "ORDER", "HAVING", "LIMIT"}}
            stop == IF breaks = {} THEN Len(q) + 1 ELSE MinOf(breaks)
        IN  \* where_tokens is empty only when nothing follows WHERE
            IF w = Len(q) THEN <<>>
            ELSE SplitWhere(q, w + 1, stop, <<>>, FALSE)

has_joins(q) == \E i \in 1..Len(q) : Upper(q[i]) = "JOIN"

\* re.finditer(r'(\w+\s+)?JOIN\s+(\w+)', query, re.IGNORECASE) scanning
\* from lexeme i: the word in front of JOIN, whatever it is, is the type
RECURSIVE JoinMatches(_, _)
JoinMatches(q, i) ==
  IF i >= Len(q) THEN <<>>
  ELSE IF /\ i + 2 <= Len(q)
          /\ IsWord(q[i])
          /\ Upper(q[i + 1]) = "JOIN"
          /\ IsWord(q[i + 2])
       THEN <<[type |-> Upper(q[i]), table |-> q[i + 2]]>>
              \o JoinMatches(q, i + 3)
  ELSE IF Upper(q[i]) = "JOIN" /\ IsWord(q[i + 1])
       THEN <<[type |-> "INNER", table |-> q[i + 1]]>>
              \o JoinMatches(q, i + 2)
  ELSE JoinMatches(q, i + 1)

get_join_info(q) == IF ~has_joins(q) THEN <<>> ELSE JoinMatches(q, 1)

\* get_order_by / get_group_by share their code: kw is ORDER or GROUP and
\* terms the keywords that end the clause.  The clause is cut out of
\* query_upper.  err is the IndexError of ''.split()[0] on an empty item.
ClauseColumns(q, kw, terms) ==
  LET U == UpperSeq(q)
      hits == {i \in 1..(Len(U) - 2) : U[i] = kw /\ U[i + 1] = "BY"}
  IN  IF ~Adjacent(U, kw, "BY") \/ hits = {}
      THEN [err |-> FALSE, cols |-> <<>>]
      ELSE
        LET first == MinOf(hits) + 2
            ends == {j \in (first + 1)..Len(U) : U[j] \in terms}
            last == IF ends = {} THEN Len(U) ELSE MinOf(ends) - 1
            items == SplitOn(SubSeq(U, first, last), ",", <<>>)
        IN  IF \E k \in 1..Len(items) : items[k] = <<>>
            THEN [err |-> TRUE, cols |-> <<>>]
            ELSE [err |-> FALSE,
                  cols |-> [k \in 1..Len(items) |-> items[k][1]]]

get_order_by(q) == ClauseColumns(q, "ORDER", {"LIMIT", "GROUP", "HAVING"})

get_group_by(q) == ClauseColumns(q, "GROUP", {"ORDER", "HAVING", "LIMIT"})

\* the pattern without its LIMIT anchor: with a LIMIT clause in the text, the
\* first integer of the text is taken
get_limit_unanchored(q) ==
  LET U == UpperSeq(q)
      hits == {i \in 1..(Len(U) - 1) :
                 U[i] = "LIMIT" /\ U[i + 1] \in NumberLexemes}
      nums == {i \in 1..Len(U) : U[i] \in NumberLexemes}
  IN  IF hits = {} THEN [set |-> FALSE, value |-> 0]
      ELSE [set |-> TRUE, value |-> IntOf(U[MinOf(nums)])]

\* None is [set |-> FALSE]
get_limit(q) ==
  LET U == UpperSeq(q)
      hits == {i \in 1..(Len(U) - 1) :
                 U[i] = "LIMIT" /\ U[i + 1] \in NumberLexemes}
  IN  IF hits = {} THEN [set |-> FALSE, value |-> 0]
      ELSE [set |-> TRUE, value |-> IntOf(U[MinOf(hits) + 1])]

\* the dict literal evaluates its values in order, so the first failing
\* extractor decides the exception
analyze(q) ==
  LET ob == get_order_by(q)
      gb == get_group_by(q)
  IN  [raised |-> IF ob.err \/ gb.err THEN "IndexError" ELSE "none",
       type |-> get_query_type(q),
       tables |-> get_tables(q),
       columns |-> get_columns(q),
       where_conditions |-> get_where_conditions(q),
       has_joins |-> has_joins(q),
       joins |-> get_join_info(q),
       order_by |-> ob.cols,
       group_by |-> gb.cols,
       limit |-> get_limit(q)]

(***************************************************************************)
(* StorageEngine, as the simulator uses it.  A database is a function from *)
(* table name to [exists, rows, indexes]; SQLite resolves table names      *)
(* without regard to letter case.  cursor.execute raises OperationalError  *)
(* for a statement SQLite cannot parse and for a SELECT on a missing       *)
(* table; PRAGMA index_list of a missing table is an empty list.           *)
(***************************************************************************)
TableNames == {"_users", "_1"}

\* names that make `PRAGMA index_list(<name>)' a syntax error
PragmaRejected ==
  {"SELECT", "INSERT", "UPDATE", "INTO", "VALUES", "SET", "FROM", "JOIN",
   "WHERE", "GROUP", "ORDER", "HAVING", "LIMIT", "AND", "OR", "AS", "CREATE",
   "TABLE", "DROP", "ALTER", "USING", "DISTINCT"}

\* names that make `SELECT COUNT(*) FROM <name>' a syntax error
CountRejected == PragmaRejected \cup {"DELETE", "ON"} \cup NumberLexemes

Present(db, t) == Lower(t) \in TableNames /\ db[Lower(t)].exists

\* StorageEngine.get_indexes(table): err, or the number of rows returned
get_indexes(db, t) ==
  IF Upper(t) \in PragmaRejected THEN [err |-> TRUE, n |-> 0]
  ELSE IF Present(db, t) THEN [err |-> FALSE, n |-> db[Lower(t)].indexes]
  ELSE [err |-> FALSE, n |-> 0]

\* StorageEngine.execute("SELECT COUNT(*) FROM <table>"): err, or result[0][0]
count_rows(db, t) ==
  IF Upper(t) \in CountRejected THEN [err |-> TRUE, n |-> 0]
  ELSE IF Present(db, t) THEN [err |-> FALSE, n |-> db[Lower(t)].rows]
  ELSE [err |-> TRUE, n |-> 0]

(***************************************************************************)
(* ExecutionSimulator.  Costs are kept in tenths (1.0 is 10).              *)
(***************************************************************************)
DefaultEstimate == 100

MaxInt(a, b) == IF a >= b THEN a ELSE b

\* int(total_rows * 0.3); the float product truncates to 3n div 10 for
\* every n below 200000
ThirtyPercent(n) == (3 * n) \div 10

\* the estimate without its floor of one row
_estimate_rows_nofloor(db, t, conditions) ==
  LET r == count_rows(db, t)
  IN  IF r.err THEN DefaultEstimate
      ELSE IF conditions # <<>> THEN ThirtyPercent(r.n)
      ELSE r.n

\* conditions is a list or None; None is passed as <<>>
_estimate_rows(db, t, conditions) ==
  LET r == count_rows(db, t)
  IN  IF r.err THEN DefaultEstimate
      ELSE IF conditions # <<>> THEN MaxInt(1, ThirtyPercent(r.n))
      ELSE r.n

_estimate_join_rows == 50

_estimate_filtered_rows == 30

_estimate_grouped_rows == 10

_estimate_sorted_rows == 25

_estimate_final_rows == 20

ExecutionStep(ty, desc, cost, rows, details) ==
  [step_type |-> ty, description |-> desc, cost |-> cost,
   rows_processed |-> rows, details |-> details]

\* the index is used whenever one exists, WHERE or not
ScanStep_ignores_where(db, a, t) ==
  IF get_indexes(db, t).n > 0
  THEN ExecutionStep("INDEX_SCAN", <<"Scanning index on", t>>, 5,
                     _estimate_rows(db, t, a.where_conditions),
                     [table |-> t, index_used |-> TRUE])
  ELSE ExecutionStep("TABLE_SCAN", <<"Scanning table", t>>, 10,
                     _estimate_rows(db, t, <<>>),
                     [table |-> t, index_used |-> FALSE])

\* one pass of the loop over tables, lines 82-106, once get_indexes returned
ScanStep(db, a, t) ==
  IF get_indexes(db, t).n > 0 /\ a.where_conditions # <<>>
  THEN ExecutionStep("INDEX_SCAN", <<"Scanning index on", t>>, 5,
                     _estimate_rows(db, t, a.where_conditions),
                     [table |-> t, index_used |-> TRUE])
  ELSE ExecutionStep("TABLE_SCAN", <<"Scanning table", t>>, 10,
                     _estimate_rows(db, t, <<>>),
                     [table |-> t, index_used |-> FALSE])

JoinStep(j) ==
  ExecutionStep("JOIN", <<"Performing", j.type, "JOIN with", j.table>>, 8,
                _estimate_join_rows,
                [join_type |-> j.type, table |-> j.table])

\* the filter of an UPDATE or DELETE priced like the statement's last step
FilterStep_costly(a, text) ==
  ExecutionStep("FILTER", <<text, a.where_conditions>>,
                IF text = "Applying WHERE filter:" THEN 3 ELSE 5,
                _estimate_filtered_rows,
                [conditions |-> a.where_conditions])

FilterStep(a, text) ==
  ExecutionStep("FILTER", <<text, a.where_conditions>>, 3,
                _estimate_filtered_rows,
                [conditions |-> a.where_conditions])

\* the steps after the scans
SelectTail(a) ==
  (IF a.has_joins
   THEN [k \in 1..Len(a.joins) |-> JoinStep(a.joins[k])] ELSE <<>>)
  \o (IF a.where_conditions # <<>>
      THEN <<FilterStep(a, "Applying WHERE filter:")>> ELSE <<>>)
  \o (IF a.group_by # <<>>
      THEN <<ExecutionStep("GROUP", <<"Grouping by:", a.group_by>>, 5,
                           _estimate_grouped_rows,
                           [columns |-> a.group_by])>>
      ELSE <<>>)
  \o (IF a.order_by # <<>>
      THEN <<ExecutionStep("SORT", <<"Sorting by:", a.order_by>>, 6,
                           _estimate_sorted_rows,
                           [columns |-> a.order_by])>>
      ELSE <<>>)
  \o (IF a.limit.set /\ a.limit.value # 0
      THEN <<ExecutionStep("LIMIT", <<"Applying LIMIT", a.limit.value>>, 1,
                           a.limit.value, [limit |-> a.limit.value])>>
      ELSE <<>>)
  \o <<ExecutionStep("PROJECT",
                     IF a.columns # << <<"*">> >>
                     THEN <<"Projecting columns:",
                            IF a.columns # <<>> THEN a.columns
                            ELSE << <<"*">> >> >>
                     ELSE <<"Projecting all columns">>,
                     2, _estimate_final_rows, [columns |-> a.columns])>>

\* a failing get_indexes call leaves _simulate_select with its exception
_simulate_select(db, a) ==
  IF a.tables = <<>> THEN [raised |-> "none", steps |-> <<>>]
  ELSE IF \E k \in 1..Len(a.tables) : get_indexes(db, a.tables[k]).err
  THEN [raised |-> "OperationalError", steps |-> <<>>]
  ELSE [raised |-> "none",
        steps |-> [k \in 1..Len(a.tables) |-> ScanStep(db, a, a.tables[k])]
                    \o SelectTail(a)]

\* the INSERT step built without its rows_processed argument, which then
\* takes the default of ExecutionStep
_simulate_insert_norows(a) ==
  IF a.tables # <<>>
  THEN <<ExecutionStep("INSERT", <<"Inserting row into", a.tables[1]>>, 3, 0,
                       [table |-> a.tables[1]])>>
  ELSE <<>>

_simulate_insert(a) ==
  IF a.tables # <<>>
  THEN <<ExecutionStep("INSERT", <<"Inserting row into", a.tables[1]>>, 3, 1,
                       [table |-> a.tables[1]])>>
  ELSE <<>>

\* _simulate_update and _simulate_delete differ in the last step only
ModifySteps(db, a, ty, desc) ==
  IF a.tables # <<>>
  THEN <<ExecutionStep("TABLE_SCAN",
                       <<"Scanning table", a.tables[1], "for matching rows">>,
                       10,
                       _estimate_rows(db, a.tables[1], a.where_conditions),
                       [table |-> a.tables[1]])>>
       \o (IF a.where_conditions # <<>>
           THEN <<FilterStep(a, "Filtering rows:")>> ELSE <<>>)
       \o <<ExecutionStep(ty, <<desc, a.tables[1]>>, 5,
                          _estimate_filtered_rows,
                          [table |-> a.tables[1]])>>
  ELSE <<>>

_simulate_update(db, a) ==
  ModifySteps(db, a, "UPDATE", "Updating matching rows in")

_simulate_delete(db, a) ==
  ModifySteps(db, a, "DELETE", "Deleting matching rows from")

\* a is the outcome of QueryAnalyzer(query).analyze(), lines 43-44
\* a step built without its cost argument: cost defaults to 0.0
UnknownStep_nocost(ty) ==
  ExecutionStep("UNKNOWN", <<"Executing", ty, "query">>, 0, 0, <<>>)

UnknownStep(ty) ==
  ExecutionStep("UNKNOWN", <<"Executing", ty, "query">>, 10, 0, <<>>)

simulate(db, a) ==
      IF a.raised # "none" THEN [raised |-> a.raised, steps |-> <<>>]
      ELSE IF a.type = "SELECT" THEN _simulate_select(db, a)
      ELSE IF a.type = "INSERT"
      THEN [raised |-> "none", steps |-> _simulate_insert(a)]
      ELSE IF a.type = "UPDATE"
      THEN [raised |-> "none", steps |-> _simulate_update(db, a)]
      ELSE IF a.type = "DELETE"
      THEN [raised |-> "none", steps |-> _simulate_delete(db, a)]
      ELSE [raised |-> "none", steps |-> <<UnknownStep(a.type)>>]

(***************************************************************************)
(* QueryVisualizer, the two methods that compute something from the plan.  *)
(***************************************************************************)
\* sum(step.cost for step in steps), in tenths
RECURSIVE SumCost(_)
SumCost(ss) == IF ss = <<>> THEN 0 ELSE Head(ss).cost + SumCost(Tail(ss))

\* the totals printed under the table of steps, lines 95-98
show_execution_steps(ss) ==
  [total_cost |-> SumCost(ss),
   total_rows |-> IF ss # <<>> THEN ss[Len(ss)].rows_processed ELSE 0]

\* step.details.get('index_used', False)
IndexUsed(st) ==
  IF "index_used" \in DOMAIN st.details THEN st.details.index_used ELSE FALSE

\* one message per table scan that uses no index and names a table
ScanSuggestions(ss) ==
  LET hit(st) == /\ st.step_type = "TABLE_SCAN"
                 /\ ~IndexUsed(st)
                 /\ "table" \in DOMAIN st.details
      hits == SelectSeq(ss, hit)
  IN  [k \in 1..Len(hits) |->
         <<"Consider creating an index on", hits[k].details.table,
           "to avoid full table scan">>]

LargeResult == 1000

\* the WHERE rule fires whenever there are WHERE conditions, index scan or not
WhereSuggestions_any(a, ss) ==
  IF a.where_conditions # <<>>
  THEN << <<"Consider adding indexes on columns used in WHERE clause">> >>
  ELSE <<>>

WhereSuggestions(a, ss) ==
  IF /\ a.where_conditions # <<>>
     /\ ~\E k \in 1..Len(ss) : ss[k].step_type = "INDEX_SCAN"
  THEN << <<"Consider adding indexes on columns used in WHERE clause">> >>
  ELSE <<>>

SizeSuggestions(ss) ==
  IF ss # <<>> /\ ss[Len(ss)].rows_processed > LargeResult
  THEN << <<"Large result set", ss[Len(ss)].rows_processed,
            "rows. Consider adding LIMIT or more specific WHERE conditions">> >>
  ELSE <<>>

\* the suggestion list and the lines printed for it, lines 164-203
show_suggestions(a, ss) ==
  LET sugg == ScanSuggestions(ss) \o WhereSuggestions(a, ss)
                \o SizeSuggestions(ss)
  IN  [suggestions |-> sugg,
       printed |->
         IF sugg # <<>>
         THEN << <<"Optimization Suggestions">> >>
                \o [k \in 1..Len(sugg) |-> <<k>> \o sugg[k]]
         ELSE << <<"Query looks well-optimized!">> >>]

(***************************************************************************)
(* Bounds and inputs.                                                      *)
(***************************************************************************)
MaxRows == 8

MaxOtherRows == 0

MaxIndexes == 1

NoTable == [exists |-> FALSE, rows |-> 0, indexes |-> 0]

TableStates(maxRows) ==
  {NoTable} \cup
  [exists : {TRUE}, rows : 0..maxRows, indexes : 0..MaxIndexes]

Databases ==
  {db \in [TableNames -> TableStates(MaxRows)] :
     db["_1"] \in TableStates(MaxOtherRows)}

\* a query is a statement head followed by optional clauses, some of them
\* still being typed
Heads ==
  {<<>>,
   <<"SELECT", "*">>,
   <<"SELECT", "name", ",", "age">>,
   <<"INSERT", "INTO", "_users", "VALUES", "(", "1", ")">>,
   <<"INSERT", "OR", "REPLACE", "INTO", "_users">>,
   <<"UPDATE", "_users", "SET", "age", "=", "1">>,
   <<"DELETE">>,
   <<"EXPLAIN">>}

Froms == {<<>>, <<"FROM", "_users">>, <<"FROM", "table">>}

Joins == {<<>>, <<"JOIN", "_1", "o", "ON", "id", "=", "id">>}

Wheres == {<<>>, <<"WHERE", "age", ">", "25">>}

Groups ==
  {<<>>, <<"GROUP", "BY", "city">>, <<"GROUP", "BY", "city", ",", ",", "age">>}

Orders ==
  {<<>>, <<"ORDER", "BY", "age", "DESC">>, <<"ORDER", "BY", "age", ",">>}

Limits == {<<>>, <<"LIMIT", "5">>}

Queries ==
  {h \o f \o j \o w \o g \o o \o l :
     h \in Heads, f \in Froms, j \in Joins, w \in Wheres, g \in Groups,
     o \in Orders, l \in Limits}

(***************************************************************************)
(* State: the database the engine is connected to, and the last call made  *)
(* on the analyzer or the simulator with what it returned or raised.       *)
(***************************************************************************)
\* the statements typed at the console: more statement kinds, letter cases,
\* aliases and LIMIT forms, against fewer databases
StatementHeads ==
  {<<"SELECT", "*">>,
   <<"select", "*">>,
   <<"SELECT", "name", "AS", "n">>,
   <<"SELECT", "name", "as", "n">>,
   <<"SELECT", "name", "n", ",", "age">>,
   <<"SELECT", "DISTINCT", "name">>,
   <<"CREATE", "TABLE", "_1">>,
   <<"DROP", "TABLE", "_1">>,
   <<"alter", "TABLE", "_1">>,
   <<"REPLACE", "INTO", "_1">>,
   <<"EXPLAIN", "SELECT", "*">>,
   <<"DELETE">>,
   <<"UPDATE", "_users", "SET", "age", "=", "1">>,
   <<"INSERT", "INTO", "_users", "VALUES", "(", "1", ")">>}

StatementFroms ==
  {<<>>, <<"FROM", "_users">>, <<"from", "_users", "u">>, <<"FROM", "_1">>}

StatementJoins ==
  {<<>>,
   <<"JOIN", "_1", "o", "ON", "id", "=", "id">>,
   <<"LEFT", "JOIN", "_1", "ON", "id", "=", "id">>,
   <<"JOIN", "_1", "o", "USING", "(", "id", ")">>}

StatementWheres == {<<>>, <<"WHERE", "age", ">", "25">>}

StatementTails ==
  {<<>>,
   <<"GROUP", "BY", "city", "ORDER", "BY", "age", "DESC">>,
   <<"LIMIT", "5">>,
   <<"LIMIT", "0">>,
   <<"limit", "25", ",", "5">>}

Statements ==
  {h \o f \o j \o w \o t :
     h \in StatementHeads, f \in StatementFroms, j \in StatementJoins,
     w \in StatementWheres, t \in StatementTails}

\* the databases the console session runs against: each table missing,
\* empty or full
ConsoleDatabases ==
  {d \in Databases : /\ d["_users"].rows \in {0, MaxRows}
                     /\ d["_1"].rows \in {0, MaxOtherRows}
                     /\ d["_users"].indexes \in {0, MaxIndexes}
                     /\ d["_1"].indexes \in {0, MaxIndexes}}

\* analyze() of every query of the input sets, tabulated once
AnalysisOf == [q \in Queries \cup Statements |-> analyze(q)] @@ <<>>

(***************************************************************************)
(* StorageEngine, as a caller of execute() and transaction() uses it.  The *)
(* database file holds the table users, keyed by id, and may hold a second *)
(* table t2.  disk is what the file holds, view what the open connection   *)
(* reads: the file plus the changes of the connection's open transaction.  *)
(***************************************************************************)
Ids == {1, 2}

Contents == [users : SUBSET Ids, t2 : BOOLEAN]

\* what differs between two databases: the rows in one of them only, and
\* whether one of them only holds t2
NothingChanged == [users |-> {}, t2 |-> FALSE]

Changed(c, d) ==
  [users |-> (c.users \ d.users) \cup (d.users \ c.users),
   t2 |-> c.t2 # d.t2]

\* INSERT INTO users (id) VALUES (id); DELETE FROM users WHERE id = id;
\* UPDATE users SET id = to WHERE id = id; SELECT id FROM users;
\* CREATE TABLE t2 (x)
NoStatement == [kind |-> "none", id |-> 0, to |-> 0]

SqlStatements ==
  {[kind |-> "SELECT", id |-> 0, to |-> 0],
   [kind |-> "CREATE", id |-> 0, to |-> 0]}
  \cup [kind : {"INSERT", "DELETE"}, id : Ids, to : {0}]
  \cup {s \in [kind : {"UPDATE"}, id : Ids, to : Ids] : s.id # s.to}

DmlKinds == {"INSERT", "UPDATE", "DELETE"}

\* cursor.execute(query) on a connection opened with isolation_level
\* "DEFERRED": sqlite3 begins a transaction before an INSERT, UPDATE or
\* DELETE when none is open, and before no other statement; a statement
\* that fails changes nothing, and the transaction begun for it stays open
cursor_execute(c, in_tx, s) ==
  CASE s.kind = "SELECT" ->
         [err |-> "none", content |-> c, in_transaction |-> in_tx,
          rows |-> c.users]
    [] s.kind = "CREATE" ->
         IF c.t2
         THEN [err |-> "OperationalError", content |-> c,
               in_transaction |-> in_tx, rows |-> {}]
         ELSE [err |-> "none", content |-> [c EXCEPT !.t2 = TRUE],
               in_transaction |-> in_tx, rows |-> {}]
    [] s.kind = "INSERT" ->
         IF s.id \in c.users
         THEN [err |-> "IntegrityError", content |-> c,
               in_transaction |-> TRUE, rows |-> {}]
         ELSE [err |-> "none",
               content |-> [c EXCEPT !.users = @ \cup {s.id}],
               in_transaction |-> TRUE, rows |-> {}]
    [] s.kind = "DELETE" ->
         [err |-> "none", content |-> [c EXCEPT !.users = @ \ {s.id}],
          in_transaction |-> TRUE, rows |-> {}]
    [] s.kind = "UPDATE" ->
         IF s.id \in c.users /\ s.to \in c.users
         THEN [err |-> "IntegrityError", content |-> c,
               in_transaction |-> TRUE, rows |-> {}]
         ELSE [err |-> "none",
               content |-> IF s.id \in c.users
                           THEN [c EXCEPT !.users = (@ \ {s.id}) \cup {s.to}]
                           ELSE c,
               in_transaction |-> TRUE, rows |-> {}]

\* execute() after its cursor.execute(): the commit is skipped when the
\* connection reports an open transaction.  Outside a transaction SQLite is
\* in autocommit mode and the statement is in the file already.
\* r is what cursor.execute did; the result is what the file holds.
execute_commit(file, r) ==
  IF r.in_transaction THEN file ELSE r.content

(***************************************************************************)
(* ChallengeScorer and the default challenge bank.                         *)
(***************************************************************************)
POINTS_EASY == 10

POINTS_MEDIUM == 25

POINTS_HARD == 50

MAX_SCORE == 2600

\* the default bank holds the challenges 1..BankSize
BankSize == 200

\* generate_all_200_challenges(): easy 1-50, medium 51-125, hard 126-200
difficulty_of(id) ==
  IF id <= 50 THEN "easy" ELSE IF id <= 125 THEN "medium" ELSE "hard"

\* the required_concepts of the challenges of the default bank
required_concepts(id) ==
  CASE id \in {1}
         -> <<"SELECT", "WHERE", "ORDER BY">>
    [] id \in 6..11 \cup 46..50 \cup {2, 4, 14, 15, 21}
         -> <<"SELECT", "WHERE">>
    [] id \in {3}
         -> <<"SELECT", "WHERE", "Date Functions">>
    [] id \in {5, 12, 13}
         -> <<"SELECT", "WHERE", "LIKE">>
    [] id \in 16..20 \cup 22..25
         -> <<"SELECT", "ORDER BY">>
    [] id \in {26, 28, 29, 31, 34, 35}
         -> <<"SELECT", "Aggregate Functions">>
    [] id \in {27, 30, 32, 33}
         -> <<"SELECT", "WHERE", "Aggregate Functions">>
    [] id \in 36..38
         -> <<"SELECT", "String Functions">>
    [] id \in {39, 44, 45}
         -> <<"SELECT">>
    [] id \in 40..43
         -> <<"SELECT", "Date Functions">>
    [] id \in 51..65
         -> <<"SELECT", "INNER JOIN", "JOIN">>
    [] id \in 66..80
         -> <<"SELECT", "LEFT JOIN", "JOIN">>
    [] id \in 81..90
         -> <<"SELECT", "GROUP BY", "Aggregate Functions">>
    [] id \in 91..100
         -> <<"SELECT", "GROUP BY", "HAVING">>
    [] id \in 101..106 \cup 111..117 \cup {108, 119, 120}
         -> <<"SELECT", "Subqueries">>
    [] id \in {107, 109, 110, 118, 122, 123, 125}
         -> <<"SELECT", "JOIN", "JOIN">>
    [] id \in {121}
         -> <<"SELECT", "Multiple JOINs", "JOIN">>
    [] id \in {124}
         -> <<"SELECT", "Self JOIN", "JOIN">>
    [] id \in 126..170 \cup {178, 197}
         -> <<"SELECT", "Window Functions">>
    [] id \in 171..177 \cup 179..185
         -> <<"SELECT", "CTE">>
    [] id \in 186..196 \cup 198..200
         -> <<"SELECT", "CTE", "Recursive">>

Results == {"perfect", "partial", "incorrect"}

_create_empty_progress ==
  [total_score |-> 0,
   perfect_solves |-> 0,
   total_attempts |-> 0,
   challenges_completed |-> <<>>,
   attempts |-> <<>>,
   concept_mastery |-> <<>>,
   difficulty_stats |->
     [d \in {"easy", "medium", "hard"} |-> [perfect |-> 0, attempts |-> 0]]]

_get_points_for_difficulty(difficulty) ==
  LET difficulty_lower == Lower(difficulty)
  IN  CASE difficulty_lower = "easy" -> POINTS_EASY
        [] difficulty_lower = "medium" -> POINTS_MEDIUM
        [] difficulty_lower = "hard" -> POINTS_HARD
        [] OTHER -> 0

InSeq(x, s) == \E k \in 1..Len(s) : s[k] = x

\* concept_mastery[concept] = concept_mastery.get(concept, 0) + 1, for each
\* concept of the list in turn
RECURSIVE CountConcepts(_, _, _)
CountConcepts(m, concepts, k) ==
  IF k > Len(concepts) THEN m
  ELSE LET c == concepts[k]
       IN  CountConcepts(IF c \in DOMAIN m THEN [m EXCEPT ![c] = @ + 1]
                         ELSE m @@ (c :> 1),
                         concepts, k + 1)

\* the attempt recorded and counted, before the score is looked at
AttemptRecorded(p, challenge_id, result, q, difficulty) ==
  LET challenge_attempts ==
        SelectSeq(p.attempts, LAMBDA a : a.challenge_id = challenge_id)
      attempt == [challenge_id |-> challenge_id,
                  result |-> result,
                  query |-> q,
                  attempts_count |-> Len(challenge_attempts) + 1]
  IN  [p EXCEPT !.attempts = Append(@, attempt),
                !.total_attempts = @ + 1,
                !.difficulty_stats =
                   IF difficulty \in DOMAIN @
                   THEN [@ EXCEPT ![difficulty].attempts = @ + 1]
                   ELSE @]

\* the points, the solve and the completion booked for a perfect attempt
PerfectBooked(p, challenge_id, difficulty, concepts) ==
  [p EXCEPT !.total_score = @ + _get_points_for_difficulty(difficulty),
            !.perfect_solves = @ + 1,
            !.challenges_completed = Append(@, challenge_id),
            !.difficulty_stats =
               IF difficulty \in DOMAIN @
               THEN [@ EXCEPT ![difficulty].perfect = @ + 1]
               ELSE @,
            !.concept_mastery = CountConcepts(@, concepts, 1)]

\* record_attempt that books every perfect attempt, completed before or not
record_attempt_rebooked(p, challenge_id, result, q, difficulty, concepts) ==
  LET p1 == AttemptRecorded(p, challenge_id, result, q, difficulty)
  IN  IF result = "perfect"
      THEN PerfectBooked(p1, challenge_id, difficulty, concepts)
      ELSE p1

record_attempt(p, challenge_id, result, q, difficulty, concepts) ==
  LET p1 == AttemptRecorded(p, challenge_id, result, q, difficulty)
  IN  IF result = "perfect" /\ ~InSeq(challenge_id, p1.challenges_completed)
      THEN PerfectBooked(p1, challenge_id, difficulty, concepts)
      ELSE p1

\* the challenge a player who takes the bank in order works on
next_challenge(p) == Len(p.challenges_completed) + 1

\* the challenges a player picks from, one or two of each difficulty, the
\* number of attempts recorded in a session, the failed attempts of a
\* player who works through the whole bank, and the query submitted
SampleChallenges == {1, 51, 126, 200}

MaxAttempts == 4

MaxFailed == 1

Submission == <<"SELECT", "*", "FROM", "_users">>

VARIABLES db, op, query, analysis, steps, raised,
          total_cost, total_rows, suggestions, printed,
          conn, disk, view, in_transaction, block, entry, touched,
          call, statement, exc, result,
          progress, progress_file, recorded

\* the analyzer, the simulator and the visualizer with their database
console == <<db, op, query, analysis, steps, raised,
             total_cost, total_rows, suggestions, printed>>

\* the storage engine: its connection, the file, what the connection reads,
\* the transaction() block in progress with the database it was entered on
\* and what its statements changed, and the last call with what it raised
\* and returned
storage == <<conn, disk, view, in_transaction, block, entry, touched,
             call, statement, exc, result>>

\* the scorer: its progress, the progress file, and the attempts it was
\* given
scorer == <<progress, progress_file, recorded>>

vars == <<console, storage, scorer>>

\* what the visualizer has computed and printed
shown == <<total_cost, total_rows, suggestions, printed>>

NoFacts == analyze(<<>>)

\* no call on the analyzer, the simulator or the visualizer is in progress
ConsoleIdle ==
  /\ op = "none"
  /\ query = <<>>
  /\ analysis = NoFacts
  /\ steps = <<>>
  /\ raised = "none"
  /\ total_cost = 0
  /\ total_rows = 0
  /\ suggestions = <<>>
  /\ printed = <<>>

\* no connection is open and no statement was executed
StorageIdle ==
  /\ conn = "closed"
  /\ disk = [users |-> {}, t2 |-> FALSE]
  /\ view = disk
  /\ in_transaction = FALSE
  /\ block = "none"
  /\ entry = disk
  /\ touched = NothingChanged
  /\ call = "none"
  /\ statement = NoStatement
  /\ exc = "none"
  /\ result = {}

\* no attempt was recorded
ScorerIdle ==
  /\ progress = _create_empty_progress
  /\ progress_file = _create_empty_progress
  /\ recorded = <<>>

Init ==
  /\ db \in Databases
  /\ ConsoleIdle
  /\ StorageIdle
  /\ ScorerIdle

\* QueryAnalyzer(q).analyze()
Analyze(q) ==
  /\ op = "none"
  /\ op' = "analyze"
  /\ query' = q
  /\ LET a == AnalysisOf[q]
     IN  /\ raised' = a.raised
         /\ analysis' = IF a.raised = "none" THEN a
                         ELSE [NoFacts EXCEPT !.raised = a.raised]
  /\ UNCHANGED <<db, steps, shown, storage, scorer>>

\* ExecutionSimulator(storage).simulate(q)
Simulate(q) ==
  /\ op = "none"
  /\ op' = "simulate"
  /\ query' = q
  /\ LET a == AnalysisOf[q]
         r == simulate(db, a)
     IN  /\ raised' = r.raised
         /\ steps' = r.steps
         /\ analysis' = IF a.raised = "none" THEN a
                         ELSE [NoFacts EXCEPT !.raised = a.raised]
  /\ UNCHANGED <<db, shown, storage, scorer>>

\* visualizer.show_execution_steps(steps), called with what simulate()
\* returned
ShowExecutionSteps ==
  /\ op = "simulate"
  /\ raised = "none"
  /\ op' = "show_execution_steps"
  /\ LET r == show_execution_steps(steps)
     IN  /\ total_cost' = r.total_cost
         /\ total_rows' = r.total_rows
  /\ UNCHANGED <<db, query, analysis, steps, raised, suggestions, printed,
               storage, scorer>>

\* analysis = QueryAnalyzer(query).analyze();
\* visualizer.show_suggestions(analysis, steps)
ShowSuggestions ==
  /\ op = "show_execution_steps"
  /\ op' = "show_suggestions"
  /\ LET r == show_suggestions(AnalysisOf[query], steps)
     IN  /\ suggestions' = r.suggestions
         /\ printed' = r.printed
  /\ UNCHANGED <<db, query, analysis, steps, raised, total_cost, total_rows,
               storage, scorer>>

\* the caller is done with the result
Return ==
  /\ op # "none"
  /\ op' = "none"
  /\ query' = <<>>
  /\ analysis' = NoFacts
  /\ steps' = <<>>
  /\ raised' = "none"
  /\ total_cost' = 0
  /\ total_rows' = 0
  /\ suggestions' = <<>>
  /\ printed' = <<>>
  /\ UNCHANGED <<db, storage, scorer>>

\* a call is made when no call is in progress (the guard of Analyze and
\* Simulate, tested here once for all q)
Next ==
  \/ op = "none" /\ \E q \in Queries : Analyze(q)
  \/ op = "none" /\ \E q \in Queries : Simulate(q)
  \/ Return

Spec == Init /\ [][Next]_vars

\* the console session, cli/main.py: a statement is analyzed, or its plan is
\* simulated and then shown with its totals and suggestions
ConsoleInit ==
  /\ Init
  /\ db \in ConsoleDatabases

ConsoleNext ==
  \/ op = "none" /\ \E q \in Statements : Analyze(q)
  \/ op = "none" /\ \E q \in Statements : Simulate(q)
  \/ ShowExecutionSteps
  \/ ShowSuggestions
  \/ Return

ConsoleSpec == ConsoleInit /\ [][ConsoleNext]_vars

(***************************************************************************)
(* The storage engine under execute(), transaction() and close().          *)
(***************************************************************************)
\* connect(), lines 29-36, where execute() and transaction() call it: the
\* new connection reads the file and has no transaction open
Connected ==
  IF conn = "closed"
  THEN [view |-> disk, in_transaction |-> FALSE]
  ELSE [view |-> view, in_transaction |-> in_transaction]

\* storage.execute(s), in a transaction() block or outside one.  An
\* exception leaves execute() before its commit and, in a block, leaves the
\* body of the block.
Execute(s) ==
  /\ block \in {"none", "active"}
  /\ LET c == Connected
         r == cursor_execute(c.view, c.in_transaction, s)
     IN  /\ view' = r.content
         /\ in_transaction' = r.in_transaction
         /\ disk' = LET file == IF r.in_transaction THEN disk ELSE r.content
                    IN  IF r.err = "none" /\ s.kind # "SELECT"
                        THEN execute_commit(file, r)
                        ELSE file
         /\ result' = r.rows
         /\ exc' = r.err
         /\ block' = IF block = "active" /\ r.err # "none" THEN "raising"
                     ELSE block
         /\ touched' = IF block = "active"
                       THEN [users |-> touched.users
                                         \cup Changed(c.view, r.content).users,
                             t2 |-> touched.t2
                                      \/ Changed(c.view, r.content).t2]
                       ELSE touched
  /\ conn' = "open"
  /\ call' = "execute"
  /\ statement' = s
  /\ UNCHANGED <<entry, console, scorer>>

\* `with storage.transaction():' is entered, lines 139-145
TransactionEnter ==
  /\ block = "none"
  /\ conn' = "open"
  /\ view' = Connected.view
  /\ in_transaction' = Connected.in_transaction
  /\ block' = "active"
  /\ entry' = Connected.view
  /\ touched' = NothingChanged
  /\ call' = "enter"
  /\ statement' = NoStatement
  /\ exc' = "none"
  /\ result' = {}
  /\ UNCHANGED <<disk, console, scorer>>

\* the body of the block completes: self.conn.commit(), line 146
TransactionCommit ==
  /\ block = "active"
  /\ disk' = view
  /\ in_transaction' = FALSE
  /\ block' = "none"
  /\ call' = "commit"
  /\ statement' = NoStatement
  /\ exc' = "none"
  /\ result' = {}
  /\ UNCHANGED <<conn, view, entry, touched, console, scorer>>

\* the body of the block raises, by a failed execute() or by a raise of its
\* own: self.conn.rollback() and the exception is raised again, lines
\* 147-149
TransactionRollback ==
  /\ block \in {"active", "raising"}
  /\ view' = disk
  /\ in_transaction' = FALSE
  /\ block' = "none"
  /\ call' = "rollback"
  /\ statement' = NoStatement
  /\ exc' = IF block = "raising" THEN exc ELSE "Exception"
  /\ result' = {}
  /\ UNCHANGED <<conn, disk, entry, touched, console, scorer>>

\* storage.close(): what the open transaction holds is lost with the
\* connection
Close ==
  /\ block = "none"
  /\ conn = "open"
  /\ conn' = "closed"
  /\ view' = disk
  /\ in_transaction' = FALSE
  /\ call' = "close"
  /\ statement' = NoStatement
  /\ exc' = "none"
  /\ result' = {}
  /\ UNCHANGED <<disk, block, entry, touched, console, scorer>>

StorageNext ==
  \/ \E s \in SqlStatements : Execute(s)
  \/ TransactionEnter
  \/ TransactionCommit
  \/ TransactionRollback
  \/ Close

\* the engine is constructed on a file that holds the table users
StorageInit ==
  /\ ConsoleIdle
  /\ db = [t \in TableNames |-> NoTable]
  /\ ScorerIdle
  /\ conn = "closed"
  /\ disk \in [users : SUBSET Ids, t2 : {FALSE}]
  /\ view = disk
  /\ in_transaction = FALSE
  /\ block = "none"
  /\ entry = disk
  /\ touched = NothingChanged
  /\ call = "none"
  /\ statement = NoStatement
  /\ exc = "none"
  /\ result = {}

StorageSpec == StorageInit /\ [][StorageNext]_vars

(***************************************************************************)
(* The scorer under record_attempt().                                      *)
(***************************************************************************)
\* scorer.record_attempt(challenge.id, result, query, challenge.difficulty,
\* challenge.required_concepts), as submit_solution calls it, with the
\* _save_progress() that ends it
Record(challenge_id, r) ==
  /\ progress' = record_attempt(progress, challenge_id, r, Submission,
                                difficulty_of(challenge_id),
                                required_concepts(challenge_id))
  /\ progress_file' = progress'
  /\ recorded' = Append(recorded, [challenge_id |-> challenge_id,
                                   result |-> r])
  /\ UNCHANGED <<console, storage>>

\* a player picks a challenge and submits a solution
RecordAttempt(challenge_id, r) ==
  /\ progress.total_attempts < MaxAttempts
  /\ Record(challenge_id, r)

ScorerNext == \E c \in SampleChallenges, r \in Results : RecordAttempt(c, r)

\* no progress file exists: _load_progress starts from empty progress
ScorerInit ==
  /\ ConsoleIdle
  /\ db = [t \in TableNames |-> NoTable]
  /\ StorageIdle
  /\ ScorerIdle

ScorerSpec == ScorerInit /\ [][ScorerNext]_vars

\* a player works through the default bank in the order of the ids and
\* gets a solution wrong at most MaxFailed times
BankAttempt(r) ==
  /\ next_challenge(progress) <= BankSize
  /\ r # "perfect" =>
       progress.total_attempts - progress.perfect_solves < MaxFailed
  /\ Record(next_challenge(progress), r)

BankNext == \E r \in Results : BankAttempt(r)

BankSpec == ScorerInit /\ [][BankNext]_vars

TypeOK ==
  /\ db \in Databases
  /\ op \in {"none", "analyze", "simulate", "show_execution_steps",
             "show_suggestions"}
  /\ raised \in {"none", "IndexError", "OperationalError"}

(***************************************************************************)
(* Properties.                                                             *)
(***************************************************************************)
DataTypes == {"SELECT", "INSERT", "UPDATE", "DELETE"}

\* simulate() was called and its analyze() returned a fact sheet
SimAnalyzed == op = "simulate" /\ analysis.raised = "none"

\* simulate() was called and returned a step sequence
SimReturned == op = "simulate" /\ raised = "none"

ScanTypes == {"TABLE_SCAN", "INDEX_SCAN"}

Count(tys) ==
  Cardinality({k \in 1..Len(steps) : steps[k].step_type \in tys})

RowCountFails(t) == count_rows(db, t).err

\* C1: analyze() never raises, whatever the input string, a half-written
\* ORDER BY or GROUP BY list included
C1_AnalyzeNeverRaises == op = "analyze" => raised = "none"

\* C2: simulate() never lets a failure of a storage call (index lookup or
\* row count) escape; it returns a step sequence instead
C2_StorageFailureAbsorbed == op = "simulate" => raised # "OperationalError"

\* the row-count query of the k-th scanned table was run: in a SELECT the
\* index lookups of tables 1..k came back first, in an UPDATE or DELETE only
\* tables[0] is counted
CountQueryRan(k) ==
  /\ k \in 1..Len(analysis.tables)
  /\ \/ /\ analysis.type = "SELECT"
        /\ \A j \in 1..k : ~get_indexes(db, analysis.tables[j]).err
     \/ analysis.type \in {"UPDATE", "DELETE"} /\ k = 1

\* C3: whenever the row-count query of a table fails, simulate() returns
\* normally and the scan step of that table carries the default 100, with
\* or without WHERE conditions
C3_CountFailureGivesDefault ==
  SimAnalyzed =>
    \A k \in 1..Len(analysis.tables) :
      (CountQueryRan(k) /\ RowCountFails(analysis.tables[k])) =>
        /\ raised = "none"
        /\ steps[k].step_type \in ScanTypes
        /\ steps[k].rows_processed = 100

\* C4: every query classified SELECT gets a non-empty plan that ends with a
\* PROJECT step, the only PROJECT step of the plan
C4_SelectEndsWithOneProject ==
  (SimAnalyzed /\ analysis.type = "SELECT") =>
    /\ raised = "none"
    /\ steps # <<>>
    /\ steps[Len(steps)].step_type = "PROJECT"
    /\ Count({"PROJECT"}) = 1

\* C5: a query whose type is none of SELECT, INSERT, UPDATE, DELETE (the
\* empty query, of type UNKNOWN, included) gets exactly one step: UNKNOWN,
\* cost 1.0, description "Executing <type> query"
C5_OtherTypesOneUnknownStep ==
  (SimAnalyzed /\ analysis.type \notin DataTypes) =>
    /\ raised = "none"
    /\ Len(steps) = 1
    /\ steps[1].step_type = "UNKNOWN"
    /\ steps[1].cost = 10
    /\ steps[1].description = <<"Executing", analysis.type, "query">>

C5_Witness ==
  /\ SimAnalyzed
  /\ query # <<>>
  /\ analysis.type = "EXPLAIN"
  /\ Len(steps) = 1
  /\ steps[1].step_type = "UNKNOWN"

\* the table the statement itself names as its target
HasTarget(q) ==
  \/ Upper(q[1]) = "UPDATE" /\ Len(q) >= 2 /\ IsWord(q[2])
  \/ Upper(q[1]) = "DELETE" /\ Len(q) >= 3 /\ Upper(q[2]) = "FROM"
       /\ IsWord(q[3])
  \/ Upper(q[1]) = "INSERT" /\ \E i \in 2..(Len(q) - 1) :
       Upper(q[i]) = "INTO" /\ IsWord(q[i + 1])

TargetOf(q) ==
  IF Upper(q[1]) = "UPDATE" THEN q[2]
  ELSE IF Upper(q[1]) = "DELETE" THEN q[3]
  ELSE q[MinOf({i \in 2..(Len(q) - 1) : Upper(q[i]) = "INTO"}) + 1]

SameTable(t, u) == Lower(t) = Lower(u)

\* C6: every query classified INSERT gets exactly one step: INSERT, cost
\* 0.3, one row, on the target table of the statement
C6_InsertOneStep ==
  (SimAnalyzed /\ analysis.type = "INSERT") =>
    /\ raised = "none"
    /\ Len(steps) = 1
    /\ steps[1].step_type = "INSERT"
    /\ steps[1].cost = 3
    /\ steps[1].rows_processed = 1
    /\ HasTarget(query)
    /\ SameTable(steps[1].details.table, TargetOf(query))

\* the analyzer found the statement's target
TargetRecognized ==
  /\ HasTarget(query)
  /\ \E k \in 1..Len(analysis.tables) :
       SameTable(analysis.tables[k], TargetOf(query))

\* floor(0.3 * n), floored at one row
IsThirtyPercent(r, n) ==
  IF 3 * n < 20 THEN r = 1 ELSE 10 * r <= 3 * n /\ 3 * n < 10 * (r + 1)

\* C7: an UPDATE or DELETE with a recognized target gets exactly a
\* TABLE_SCAN on the target (the full row count without WHERE, 30 percent
\* floored at 1 with WHERE), a FILTER iff there are WHERE conditions, and
\* an UPDATE resp. DELETE step with the estimate 30
C7_ModifyPlanShape ==
  (SimAnalyzed /\ analysis.type \in {"UPDATE", "DELETE"} /\ TargetRecognized)
  =>
    LET w == analysis.where_conditions # <<>>
        t == TargetOf(query)
    IN  /\ raised = "none"
        /\ Len(steps) = IF w THEN 3 ELSE 2
        /\ steps[1].step_type = "TABLE_SCAN"
        /\ SameTable(steps[1].details.table, t)
        /\ Present(db, t) =>
             IF w THEN IsThirtyPercent(steps[1].rows_processed,
                                       db[Lower(t)].rows)
             ELSE steps[1].rows_processed = db[Lower(t)].rows
        /\ w => steps[2].step_type = "FILTER"
        /\ steps[Len(steps)].step_type = analysis.type
        /\ steps[Len(steps)].rows_processed = 30
        /\ SameTable(steps[Len(steps)].details.table, t)

StepRank(ty) ==
  CASE ty \in ScanTypes -> 1
    [] ty = "JOIN" -> 2
    [] ty = "FILTER" -> 3
    [] ty = "GROUP" -> 4
    [] ty = "SORT" -> 5
    [] ty = "LIMIT" -> 6
    [] ty = "PROJECT" -> 7
    [] OTHER -> 0

\* C8: a SELECT plan is: the scans, one per table; the JOIN steps, one per
\* join descriptor in order and only with has_joins; a FILTER iff there are
\* WHERE conditions; a GROUP iff group_by; a SORT iff order_by; at most one
\* LIMIT; then PROJECT
C8_SelectStepOrder ==
  (SimReturned /\ analysis.type = "SELECT") =>
    LET n == Len(analysis.tables)
        present(b) == IF b THEN 1 ELSE 0
    IN  /\ \A k \in 1..Len(steps) : StepRank(steps[k].step_type) # 0
        /\ \A k \in 1..(Len(steps) - 1) :
             StepRank(steps[k].step_type) <= StepRank(steps[k + 1].step_type)
        /\ Count(ScanTypes) = n
        /\ Count({"JOIN"}) > 0 => analysis.has_joins
        /\ Count({"JOIN"}) = Len(analysis.joins)
        /\ \A k \in 1..Len(analysis.joins) :
             /\ n + k <= Len(steps)
             /\ steps[n + k].step_type = "JOIN"
             /\ steps[n + k].details.join_type = analysis.joins[k].type
             /\ steps[n + k].details.table = analysis.joins[k].table
        /\ Count({"FILTER"}) = present(analysis.where_conditions # <<>>)
        /\ Count({"GROUP"}) = present(analysis.group_by # <<>>)
        /\ Count({"SORT"}) = present(analysis.order_by # <<>>)
        /\ Count({"LIMIT"}) <= 1
        /\ Count({"PROJECT"}) <= 1

\* C9: a SELECT plan has one scan step per analyzed table, in the order of
\* the table list; the step of table t is INDEX_SCAN with index_used true
\* iff the database has an index on t and there are WHERE conditions,
\* otherwise TABLE_SCAN with index_used false
C9_ScanPerTable ==
  (SimReturned /\ analysis.type = "SELECT") =>
    /\ Count(ScanTypes) = Len(analysis.tables)
    /\ Len(steps) >= Len(analysis.tables)
    /\ \A k \in 1..Len(analysis.tables) :
         LET t == analysis.tables[k]
             usable == /\ Present(db, t)
                       /\ db[Lower(t)].indexes > 0
                       /\ analysis.where_conditions # <<>>
         IN  /\ steps[k].details.table = t
             /\ steps[k].step_type =
                  IF usable THEN "INDEX_SCAN" ELSE "TABLE_SCAN"
             /\ steps[k].details.index_used = usable

\* a table scan and an index scan side by side
C9_Witness ==
  /\ SimReturned
  /\ analysis.type = "SELECT"
  /\ Len(analysis.tables) = 2
  /\ steps[1].step_type = "TABLE_SCAN"
  /\ steps[2].step_type = "INDEX_SCAN"
  /\ analysis.where_conditions # <<>>

\* C10: in a SELECT plan a TABLE_SCAN of table t reports t's row count N
\* and an INDEX_SCAN reports max(1, floor(0.3 * N)), which is 2 for N = 8
\* and 1 for N in 0..6; the value is a non-negative integer in any case
C10_ScanRowEstimate ==
  (SimReturned /\ analysis.type = "SELECT") =>
    \A k \in 1..Len(steps) :
      steps[k].step_type \in ScanTypes =>
        LET t == steps[k].details.table
            r == steps[k].rows_processed
        IN  /\ r \in Nat
            /\ Present(db, t) =>
                 LET N == db[Lower(t)].rows
                 IN  IF steps[k].step_type = "TABLE_SCAN" THEN r = N
                     ELSE /\ IsThirtyPercent(r, N)
                          /\ N = 8 => r = 2
                          /\ N \in 0..6 => r = 1

C10_Witness ==
  /\ SimReturned
  /\ analysis.type = "SELECT"
  /\ \E k \in 1..Len(steps) :
       /\ steps[k].step_type = "INDEX_SCAN"
       /\ steps[k].details.table = "_users"
       /\ db["_users"].rows = 8
       /\ steps[k].rows_processed = 2
  /\ \E k \in 1..Len(steps) :
       /\ steps[k].step_type = "TABLE_SCAN"
       /\ steps[k].details.table = "_1"
       /\ db["_1"].exists

(***************************************************************************)
(* Properties of the console session (ConsoleSpec).                        *)
(***************************************************************************)
\* simulate() returned a plan, which may have been shown since
PlanReturned ==
  /\ op \in {"simulate", "show_execution_steps", "show_suggestions"}
  /\ raised = "none"

\* positions of a LIMIT keyword directly followed by an integer
LimitPositions(q) ==
  {i \in 1..(Len(q) - 1) :
     Upper(q[i]) = "LIMIT" /\ q[i + 1] \in NumberLexemes}

\* C11: in the plan of a SELECT query with an explicit LIMIT n, every LIMIT
\* step has rows_processed = n, n being the first integer that follows the
\* LIMIT keyword in the text
C11_LimitStepRows ==
  (PlanReturned /\ analysis.type = "SELECT" /\ LimitPositions(query) # {}) =>
    \A k \in 1..Len(steps) :
      steps[k].step_type = "LIMIT" =>
        steps[k].rows_processed = IntOf(query[MinOf(LimitPositions(query)) + 1])

\* `limit 25 , 5' after a WHERE clause that holds a number of its own
C11_Witness ==
  /\ op = "simulate"
  /\ raised = "none"
  /\ analysis.type = "SELECT"
  /\ analysis.where_conditions # <<>>
  /\ \E i \in 1..(Len(query) - 3) :
       query[i] = "limit" /\ query[i + 1] = "25" /\ query[i + 3] = "5"
  /\ \E k \in 1..Len(steps) :
       steps[k].step_type = "LIMIT" /\ steps[k].rows_processed = 25

\* C12: the plan of a SELECT query that references a table has exactly one
\* LIMIT step if the analyzed limit is set (0 included) and none if it is
\* absent
C12_LimitStepIffLimitSet ==
  (PlanReturned /\ analysis.type = "SELECT" /\ analysis.tables # <<>>) =>
    Count({"LIMIT"}) = IF analysis.limit.set THEN 1 ELSE 0

\* the cost the claim gives each step type, in tenths
StepCost(ty) ==
  CASE ty = "TABLE_SCAN" -> 10
    [] ty = "INDEX_SCAN" -> 5
    [] ty = "JOIN" -> 8
    [] ty = "FILTER" -> 3
    [] ty = "GROUP" -> 5
    [] ty = "SORT" -> 6
    [] ty = "LIMIT" -> 1
    [] ty = "PROJECT" -> 2
    [] ty = "INSERT" -> 3
    [] ty = "UPDATE" -> 5
    [] ty = "DELETE" -> 5
    [] ty = "UNKNOWN" -> 10

RECURSIVE CostOfTypes(_)
CostOfTypes(ss) ==
  IF ss = <<>> THEN 0 ELSE StepCost(Head(ss).step_type) + CostOfTypes(Tail(ss))

\* C13: the cost of every step of a plan is the fixed cost of its step type,
\* whatever the rows and the query; the total cost shown is the sum of the
\* step costs and the final row count shown is the rows_processed of the
\* last step, 0 for an empty plan
C13_CostByStepType ==
  PlanReturned =>
    /\ \A k \in 1..Len(steps) :
         steps[k].cost = StepCost(steps[k].step_type)
    /\ op # "simulate" =>
         /\ total_cost = CostOfTypes(steps)
         /\ total_rows = IF steps = <<>> THEN 0
                         ELSE steps[Len(steps)].rows_processed

\* the totals of a plan with join, filter, group and sort steps
C13_Witness ==
  /\ op = "show_execution_steps"
  /\ Count({"JOIN"}) = 1
  /\ Count({"FILTER"}) = 1
  /\ Count({"GROUP"}) = 1
  /\ Count({"SORT"}) = 1
  /\ Count({"INDEX_SCAN"}) = 1
  /\ total_cost = 39
  /\ total_rows = 20

\* no step is a TABLE_SCAN without index usage
NoBareTableScan ==
  \A k \in 1..Len(steps) :
    ~(steps[k].step_type = "TABLE_SCAN" /\ ~IndexUsed(steps[k]))

WellOptimized ==
  /\ suggestions = <<>>
  /\ printed = << <<"Query looks well-optimized!">> >>

\* C14, as stated: if no step of the plan is a TABLE_SCAN without index
\* usage and the last step's rows_processed is at most 1000, show_suggestions
\* makes no suggestion and prints exactly the well-optimized message
C14_NoBareScanNoSuggestion ==
  (/\ op = "show_suggestions"
   /\ steps # <<>>
   /\ NoBareTableScan
   /\ steps[Len(steps)].rows_processed <= 1000)
  => WellOptimized

\* C14, amended: if no step of the plan is a TABLE_SCAN without index usage,
\* the last step (if any) has rows_processed at most 1000, and the analysis
\* has no WHERE conditions or the plan has an INDEX_SCAN step, then
\* show_suggestions makes no suggestion and prints exactly the
\* well-optimized message
C14_NoRuleFiresNoSuggestion ==
  (/\ op = "show_suggestions"
   /\ NoBareTableScan
   /\ steps # <<>> => steps[Len(steps)].rows_processed <= 1000
   /\ \/ analysis.where_conditions = <<>>
      \/ Count({"INDEX_SCAN"}) > 0)
  => WellOptimized

\* a filtered SELECT served by an index scan
C14_Witness ==
  /\ op = "show_suggestions"
  /\ analysis.where_conditions # <<>>
  /\ Count({"INDEX_SCAN"}) = 1
  /\ Count({"TABLE_SCAN"}) = 0
  /\ WellOptimized

\* analyze() was called and returned a fact sheet
Analyzed == op = "analyze" /\ raised = "none"

QueryTypes ==
  {"SELECT", "INSERT", "UPDATE", "DELETE", "CREATE", "DROP", "ALTER", "UNKNOWN"}

\* C15: the type analyze() reports is one of SELECT, INSERT, UPDATE, DELETE,
\* CREATE, DROP, ALTER, UNKNOWN; a statement that starts with any other
\* keyword (EXPLAIN, REPLACE, ...) is therefore UNKNOWN
C15_TypeInDomain == Analyzed => analysis.type \in QueryTypes

\* C16: a statement whose first token is CREATE, DROP or ALTER (in any
\* letter case) has that keyword as its type
C16_DdlKeywordIsType ==
  (Analyzed /\ query # <<>> /\ Upper(query[1]) \in {"CREATE", "DROP", "ALTER"})
  => analysis.type = Upper(query[1])

\* place of a name in code-point order
OrderIndex(w) == CHOOSE i \in 1..Len(CodePointOrder) : CodePointOrder[i] = w

\* C17: the table list is sorted, holds lowercase identifiers only and names
\* no table twice, wherever the table was found; DELETE FROM _users yields
\* exactly the one entry _users
C17_TablesSortedLowerUnique ==
  Analyzed =>
    LET t == analysis.tables
    IN  /\ \A k \in 1..Len(t) : t[k] = Lower(t[k])
        /\ \A j, k \in 1..Len(t) :
             j < k => /\ OrderIndex(t[j]) < OrderIndex(t[k])
                      /\ Lower(t[j]) # Lower(t[k])
        /\ query = <<"DELETE", "FROM", "_users">> => t = <<"_users">>

Keywords == DMLWords \cup DDLWords \cup PlainKeywords

\* a bare identifier: a word that is neither a keyword nor a number
IsIdentifier(w) ==
  IsWord(w) /\ Upper(w) \notin Keywords /\ w \notin NumberLexemes

\* positions of a FROM or JOIN keyword whose target is written `table alias'
AliasedTargets(q) ==
  {i \in 1..(Len(q) - 2) :
     /\ Upper(q[i]) \in {"FROM", "JOIN"}
     /\ IsIdentifier(q[i + 1])
     /\ IsIdentifier(q[i + 2])}

\* C18: for every FROM or JOIN target written `table alias', the table list
\* contains the table and not the alias
C18_TablesNotAliases ==
  Analyzed =>
    \A i \in AliasedTargets(query) :
      /\ \E k \in 1..Len(analysis.tables) :
           SameTable(analysis.tables[k], query[i + 1])
      /\ \A k \in 1..Len(analysis.tables) :
           ~SameTable(analysis.tables[k], query[i + 2])

JoinQualifiers == {"INNER", "LEFT", "RIGHT", "FULL", "OUTER"}

\* the positions of the JOIN keywords of the text, in order
JoinPositions(q) ==
  SelectSeq([i \in 1..Len(q) |-> i], LAMBDA i : Upper(q[i]) = "JOIN")

\* C19: get_join_info() gives one descriptor per JOIN keyword, in order,
\* with the identifier after JOIN as its table; its type is INNER when the
\* JOIN is not preceded by a qualifier keyword, whatever else precedes it
C19_JoinDescriptors ==
  Analyzed =>
    LET pos == JoinPositions(query)
    IN  /\ Len(analysis.joins) = Len(pos)
        /\ \A k \in 1..Len(pos) :
             /\ analysis.joins[k].table = query[pos[k] + 1]
             /\ (pos[k] = 1 \/ Upper(query[pos[k] - 1]) \notin JoinQualifiers)
                  => analysis.joins[k].type = "INNER"

\* the base expression of one projection item: a leading DISTINCT or ALL is
\* no part of it, nor is a trailing `AS alias' (AS in any letter case) or a
\* bare trailing alias
BaseExpression(item) ==
  LET body == IF item # <<>> /\ Upper(item[1]) \in {"DISTINCT", "ALL"}
              THEN Tail(item) ELSE item
      as == {k \in 2..(Len(body) - 1) : Upper(body[k]) = "AS"}
  IN  IF as # {} THEN SubSeq(body, 1, MinOf(as) - 1)
      ELSE IF Len(body) >= 2 /\ IsIdentifier(body[Len(body)])
      THEN SubSeq(body, 1, Len(body) - 1)
      ELSE body

\* the projection of a statement SELECT <projection> FROM ...
ProjectionOf(q) ==
  SubSeq(q, 2, MinOf({i \in 2..Len(q) : Upper(q[i]) = "FROM"}) - 1)

\* C20: for SELECT <projection> FROM ..., get_columns() is ['*'] when the
\* projection is `*', and otherwise the base expression of every item of
\* the comma-separated projection, in order
C20_ColumnsAreBaseExpressions ==
  (/\ Analyzed
   /\ analysis.type = "SELECT"
   /\ \E i \in 2..Len(query) : Upper(query[i]) = "FROM")
  =>
    LET items == SplitOn(ProjectionOf(query), ",", <<>>)
    IN  analysis.columns =
          IF ProjectionOf(query) = <<"*">> THEN << <<"*">> >>
          ELSE [k \in 1..Len(items) |-> BaseExpression(items[k])]

(***************************************************************************)
(* The clause extractors: GROUP BY, ORDER BY and WHERE.                    *)
(***************************************************************************)
ClauseWords == {"GROUP", "ORDER", "HAVING", "LIMIT"}

\* the positions in q where `kw BY' is written, in either letter case
ClausePositions(q, kw) ==
  {i \in 1..(Len(q) - 1) : Upper(q[i]) = kw /\ Upper(q[i + 1]) = "BY"}

\* the names listed after the first `kw BY' of q, as they are spelled in q:
\* the first word of each comma-separated item up to the next clause
WrittenColumns(q, kw) ==
  LET first == MinOf(ClausePositions(q, kw)) + 2
      ends == {j \in first..Len(q) : Upper(q[j]) \in ClauseWords}
      last == IF ends = {} THEN Len(q) ELSE MinOf(ends) - 1
      items == SplitOn(SubSeq(q, first, last), ",", <<>>)
  IN  [k \in 1..Len(items) |-> items[k][1]]

\* C21: for a query with a GROUP BY (ORDER BY) clause listing c1, ..., ck,
\* analyze()['group_by'] (['order_by']) is [c1, ..., ck] in order, each name
\* spelled exactly as it is written in the query, ASC/DESC dropped.
C21_ClauseColumnsAsWritten ==
  Analyzed =>
    /\ ClausePositions(query, "GROUP") # {}
         => analysis.group_by = WrittenColumns(query, "GROUP")
    /\ ClausePositions(query, "ORDER") # {}
         => analysis.order_by = WrittenColumns(query, "ORDER")

\* the text between the first WHERE of q and the first clause that follows
\* it, split at AND/OR
WhereRegionFragments(q) ==
  LET w == MinOf({i \in 1..Len(q) : Upper(q[i]) = "WHERE"})
      ends == {j \in (w + 1)..Len(q) : Upper(q[j]) \in ClauseWords}
      stop == IF ends = {} THEN Len(q) + 1 ELSE MinOf(ends)
  IN  SplitWhere(q, w + 1, stop, <<>>, FALSE)

\* C22: every fragment of analyze()['where_conditions'] is taken from the
\* text between WHERE and the first following GROUP BY, ORDER BY, HAVING or
\* LIMIT clause (or the end of the query), and is one operand of the AND/OR
\* split of that text: no fragment holds text of a later clause.
C22_WhereStopsAtNextClause ==
  (Analyzed /\ \E i \in 1..Len(query) : Upper(query[i]) = "WHERE")
    => analysis.where_conditions = WhereRegionFragments(query)

(***************************************************************************)
(* The final row count of a plan, and the table a modifying plan names.    *)
(***************************************************************************)
\* the estimate the claim gives the last step of a plan, by its type
FinalRowsOf(ty) ==
  CASE ty = "PROJECT" -> 20
    [] ty \in {"UPDATE", "DELETE"} -> 30
    [] ty = "INSERT" -> 1
    [] ty = "UNKNOWN" -> 0
    [] OTHER -> -1

LargeResultSuggested ==
  \E k \in 1..Len(suggestions) : suggestions[k][1] = "Large result set"

\* C28: the last step of every plan simulate() returns has rows_processed 20
\* (PROJECT), 30 (UPDATE, DELETE), 1 (INSERT) or 0 (UNKNOWN), whatever the
\* row counts of the tables, so the large-result suggestion (more than 1000
\* rows) is never produced.
C28_FinalRowsFixed ==
  /\ (PlanReturned /\ steps # <<>>) =>
       steps[Len(steps)].rows_processed
         = FinalRowsOf(steps[Len(steps)].step_type)
  /\ op = "show_suggestions" => ~LargeResultSuggested

\* the suggestions of an INSERT plan and of a SELECT plan on a full table
C28_Witness ==
  /\ op = "show_suggestions"
  /\ steps # <<>>
  /\ \/ steps[Len(steps)].step_type = "INSERT"
          /\ steps[Len(steps)].rows_processed = 1
     \/ /\ steps[1].step_type = "TABLE_SCAN"
        /\ steps[1].rows_processed = MaxRows
        /\ steps[Len(steps)].step_type = "PROJECT"
  /\ total_rows = steps[Len(steps)].rows_processed

\* C29: in a SELECT plan with a LIMIT n step, no later step reports more
\* rows than n: the final row count is at most n.
C29_NoMoreRowsAfterLimit ==
  (PlanReturned /\ analysis.type = "SELECT") =>
    \A k \in 1..Len(steps) :
      steps[k].step_type = "LIMIT" =>
        \A j \in (k + 1)..Len(steps) :
          steps[j].rows_processed <= steps[k].rows_processed

\* a FROM clause of q names a table other than the target of q
FromNamesOtherTable(q) ==
  \E i \in 2..(Len(q) - 1) :
    /\ Upper(q[i]) = "FROM"
    /\ IsWord(q[i + 1])
    /\ ~SameTable(q[i + 1], TargetOf(q))

\* C30: for an INSERT, UPDATE or DELETE statement on table a that also has
\* a FROM clause naming another table b, every TABLE_SCAN, INSERT, UPDATE
\* and DELETE step of the plan names a and none names b.
C30_StepsNameTheTarget ==
  (/\ PlanReturned
   /\ analysis.type \in {"INSERT", "UPDATE", "DELETE"}
   /\ HasTarget(query)
   /\ FromNamesOtherTable(query)) =>
    \A k \in 1..Len(steps) :
      steps[k].step_type \in {"TABLE_SCAN", "INSERT", "UPDATE", "DELETE"} =>
        SameTable(steps[k].details.table, TargetOf(query))

(***************************************************************************)
(* Properties of the storage engine (StorageSpec).                         *)
(***************************************************************************)
\* C23: when the body of a transaction() block raises, every statement
\* executed through execute() inside the block is rolled back, so that a
\* later SELECT does not see its effect, and the exception propagates; when
\* the body completes, the changes are committed.
C23_BlockRollsBackOrCommits ==
  /\ call = "rollback" =>
       /\ exc # "none"
       /\ \A i \in touched.users : (i \in view.users) = (i \in entry.users)
       /\ touched.t2 => view.t2 = entry.t2
  /\ call = "commit" =>
       /\ exc = "none"
       /\ disk = view
       /\ ~in_transaction

\* C24: execute() of an INSERT, UPDATE or DELETE with no transaction()
\* block active commits before it returns: the change is in the file and
\* survives close() and reopening.
C24_ExecuteCommitsOutsideBlock ==
  (/\ call = "execute"
   /\ block = "none"
   /\ statement.kind \in DmlKinds
   /\ exc = "none") => disk = view

\* C25: a transaction() block whose body raises leaves every change made
\* through execute() before the block was entered: after the rollback the
\* database is exactly in its block-entry state.
C25_RollbackRestoresEntryState ==
  call = "rollback" => view = entry

(***************************************************************************)
(* Properties of the scorer (ScorerSpec, BankSpec).                        *)
(***************************************************************************)
\* the challenges with a perfect attempt among the attempts recorded
PerfectIds ==
  {recorded[k].challenge_id :
     k \in {j \in 1..Len(recorded) : recorded[j].result = "perfect"}}

\* the points the claim gives a challenge for its difficulty
ClaimedPoints(c) ==
  CASE difficulty_of(c) = "easy" -> 10
    [] difficulty_of(c) = "medium" -> 25
    [] difficulty_of(c) = "hard" -> 50

RECURSIVE SumPoints(_)
SumPoints(S) ==
  IF S = {} THEN 0
  ELSE LET c == CHOOSE x \in S : TRUE
       IN  ClaimedPoints(c) + SumPoints(S \ {c})

\* C26: after any sequence of record_attempt calls from empty progress,
\* each challenge id is at most once in challenges_completed, the completed
\* challenges are those with a perfect attempt, perfect_solves is their
\* number, total_attempts the number of attempts recorded, and total_score
\* the sum of their difficulty points (easy 10, medium 25, hard 50):
\* attempts that are not perfect, and perfect attempts on a completed
\* challenge, change neither score nor completion.
C26_ProgressMatchesAttempts ==
  LET done == progress.challenges_completed
  IN  /\ \A i, j \in 1..Len(done) : i # j => done[i] # done[j]
      /\ {done[k] : k \in 1..Len(done)} = PerfectIds
      /\ progress.perfect_solves = Len(done)
      /\ progress.total_attempts = Len(recorded)
      /\ progress.total_score = SumPoints(PerfectIds)

\* a challenge solved twice, another solved once, and an attempt that was
\* not perfect
C26_Witness ==
  /\ \E i, j \in 1..Len(recorded) :
       /\ i < j
       /\ recorded[i].result = "perfect"
       /\ recorded[j] = recorded[i]
  /\ \E k \in 1..Len(recorded) : recorded[k].result # "perfect"
  /\ Len(progress.challenges_completed) = 2
  /\ progress.total_score = 60
  /\ progress_file = progress

\* C27: with the default bank, total_score never exceeds MAX_SCORE.
C27_ScoreWithinMax ==
  progress.total_score <= MAX_SCORE

====
